---------------------------- MODULE Spec2Model ----------------------------
(***************************************************************************)
(* State-machine model of LookingGlass.py: the LookingGlassHID session     *)
(* (device selection, paged calibration load, derived parameters, button    *)
(* polling) running against a HID transport.                                *)
(*                                                                          *)
(* Bytes are integers 0..255 and byte strings are sequences.  Python's      *)
(* unbounded int jsonlen is held as <<hi, lo>> with value hi * 2^16 + lo,   *)
(* because the declared length may be 0xFFFFFFFF and jsonlen one past it.   *)
(***************************************************************************)
EXTENDS Integers, Sequences, FiniteSets, TLC

VARIABLES
    pprintDefined,  \* whether the name pprint is bound (only under __main__)
    enum,           \* what hidapi.enumerate() returns
    prefix,         \* device store, bytes 0..3
    mapId,          \* device store, which text follows the prefix
    devPage,        \* page the device echoes in its input reports
    devBtn,         \* button mask the device reports
    inq,            \* input reports (or pieces of them) waiting to be read
    pc,             \* position of the (single-threaded) program
    error,          \* exception raised by the last operation, or "none"
    idx,            \* __init__: position of the for loop in enum
    opened,         \* arguments of every hidapi.Device(...) call so far
    jsonlen,        \* loadconfig: jsonlen
    data,           \* loadconfig: data
    lcPages,        \* loadconfig: (page, size) of every readpage call it made
    allFull,        \* every report readpage accepted for loadconfig had 68 bytes
    caller,         \* readpage: where it returns to
    addr,           \* readpage: addr
    size,           \* readpage: size
    r,              \* readpage: r
    ret,            \* readpage: returned bytes
    hdr,            \* readpage: bytes 1..3 of the report the bytes came from
    nsent,          \* readpage: feature reports sent by the current call
    nextra,         \* readpage: reads issued after the loop of the current call
    discarded,      \* readpage: the current call has discarded a report
    ioDone,         \* a read or a feature report has been issued on a handle
    calibration,    \* self.calibration
    configuration,  \* self.configuration
    gbr,            \* get_buttons: r
    gbFirst,        \* get_buttons: length of what the blocking read returned
    gbByte,         \* get_buttons: first byte of what the blocking read returned
    buttons,        \* get_buttons: returned value
    cfgOut,         \* get_config: returned value
    lastOp,         \* last session operation that returned
    gbpc,           \* a second caller's get_buttons: its position
    gbTook,         \* what the second caller's reads took off the queue
    answered        \* the device has answered the outstanding page request

vars == <<pprintDefined, enum, prefix, mapId, devPage, devBtn, inq, pc, error, idx,
          opened, jsonlen, data, lcPages, allFull, caller, addr, size, r, ret,
          hdr, nsent, nextra, discarded, ioDone, calibration, configuration,
          gbr, gbFirst, gbByte, buttons, cfgOut, lastOp, gbpc, gbTook,
          answered>>

(***************************************************************************)
(* Bounds of the model.                                                     *)
(***************************************************************************)
MaxQueue == 2       \* input reports the host buffers at most
MaxCalls == 4       \* readpage calls one loadconfig makes at most
Scale == 100        \* fixed-point precision of sin(atan(x))

(***************************************************************************)
(* Program constants.                                                       *)
(***************************************************************************)
ReportLen == 68     \* 1+1+2+64
PageSize == 64
U16Max == 65535     \* range of struct format 'H'
NoneVal == -1       \* Python's None where an int is expected

(***************************************************************************)
(* Byte strings.                                                            *)
(***************************************************************************)
Min(a, b) == IF a < b THEN a ELSE b

Zeros(n) == [i \in 1..n |-> 0]

\* Python s[a:b] for 0 <= a <= b
Slice(s, a, b) == SubSeq(s, a + 1, Min(b, Len(s)))

\* struct.pack('>BH64x', 0, addr): valid only for 0 <= addr <= 65535
Pack(a) == <<0, a \div 256, a % 256>> \o Zeros(PageSize)

PackOk(a) == a >= 0 /\ a <= U16Max

\* struct.unpack('>I', b)[0] + 4 as <<hi, lo>>, base 2^16
UnpackPlus4(b) ==
    LET hi == b[1] * 256 + b[2]
        lo == b[3] * 256 + b[4]
    IN  <<hi + ((lo + 4) \div 65536), (lo + 4) % 65536>>

\* n < big, for a natural n
BigGreater(big, n) ==
    IF big[1] = n \div 65536 THEN big[2] > n % 65536 ELSE big[1] > n \div 65536

\* every page asked for in full
ChunkWholePage(big, page) == PageSize

\* min(64, big - 64*page), for 0 <= page <= 65535 and big > 64*page
\* (2^22 <= big gives big - 64*page >= 64)
Chunk(big, page) ==
    IF big[1] >= PageSize
    THEN PageSize
    ELSE Min(PageSize, big[1] * 65536 + big[2] - PageSize * page)

AllOnes == <<65535, 65535>>     \* 0xffffffff

\* an attribute or value not set
NoMap == [k \in {} |-> 0]

(***************************************************************************)
(* The device's calibration store: a 4-byte big-endian length, then text,   *)
(* then erased flash (0xFF).  Texts are abstract ASCII strings.             *)
(***************************************************************************)
MapIds == 1..3

TextLen(k) == CASE k = 1 -> 10 [] k = 2 -> 70 [] OTHER -> 60

TextByte(k, i) == 32 + ((7 * k + 3 * i) % 90)

TextOf(k) == [i \in 1..TextLen(k) |-> TextByte(k, i - 1)]

BE32(n) == <<0, 0, n \div 256, n % 256>>

Sentinel == <<255, 255, 255, 255>>

StoreByteOf(pre, k, i) ==
    IF i < 4 THEN pre[i + 1]
    ELSE IF i - 4 < TextLen(k) THEN TextByte(k, i - 4)
    ELSE 255

StoreByte(i) == StoreByteOf(prefix, mapId, i)

\* the first n bytes of the store
StoreBytes(n) == [i \in 1..n |-> StoreByte(i - 1)]

\* page p covers byte offsets 64p .. 64p+63
PageOf(p) == [j \in 1..PageSize |-> StoreByte(PageSize * p + j - 1)]

\* input report: button mask, command echo, page echo (big-endian), payload
Report(b, p) == <<b, 0, p \div 256, p % 256>> \o PageOf(p)

\* the stores a session may meet: provisioned ones, an erased one, and one
\* whose length is 0xFFFFFFFB
Provisioned(k) == [prefix |-> BE32(TextLen(k)), mapId |-> k]

Stores ==
    {Provisioned(k) : k \in MapIds}
    \cup {[prefix |-> Sentinel, mapId |-> 1],
          [prefix |-> <<255, 255, 255, 251>>, mapId |-> 1]}

(***************************************************************************)
(* hidapi.enumerate(): device descriptors.                                  *)
(***************************************************************************)
Desc(v, p, m, s) ==
    [vendor_id |-> v, product_id |-> p, manufacturer_string |-> m,
     product_string |-> s]

Mouse == Desc(1, 1, "Acme", "Mouse")
ByProduct == Desc(1240, 61310, "Microchip", "HoloPlay")
ByManufacturer == Desc(2, 2, "Looking Glass Factory", "Portrait")
ByBoth == Desc(3, 3, "Looking Glass Factory", "HoloPlay")

Enumerations ==
    {<<>>, <<Mouse>>, <<Mouse, ByProduct, ByManufacturer>>,
     <<ByManufacturer, Mouse, ByBoth>>}

\* the runs checked: every enumeration with and without pprint against one
\* store, and every store (and button mask) behind one enumeration
Scenarios ==
    {[enum |-> e, pprint |-> q, store |-> Provisioned(1), btn |-> 5] :
        e \in Enumerations, q \in BOOLEAN}
    \cup {[enum |-> <<Mouse, ByProduct, ByManufacturer>>, pprint |-> TRUE,
           store |-> st, btn |-> 5] : st \in Stores}
    \cup {[enum |-> <<Mouse, ByProduct, ByManufacturer>>, pprint |-> TRUE,
           store |-> Provisioned(1), btn |-> 21]}

\* default arguments of __init__
manufacturer_string == "Looking Glass Factory"
product_string == "HoloPlay"

\* the manufacturer compared with != instead of ==
MatchesInverted(dev) ==
    dev.product_string = product_string
    \/ dev.manufacturer_string # manufacturer_string

Matches(dev) ==
    dev.product_string = product_string
    \/ dev.manufacturer_string = manufacturer_string

(***************************************************************************)
(* The transport.  The device puts input reports on the host's queue, whole *)
(* or in two pieces or cut short; a read takes the head of the queue, cut   *)
(* to the length asked for, or nothing when the queue is empty.             *)
(***************************************************************************)
SplitPoints == {6}
InitialPages == {256}

\* the pieces in which one report may arrive
Deliveries(rep) ==
    {<<rep>>}
    \cup {<<SubSeq(rep, 1, k), SubSeq(rep, k + 1, Len(rep))>> : k \in SplitPoints}
    \cup {<<SubSeq(rep, 1, k)>> : k \in SplitPoints}

storeVars == <<pprintDefined, enum, prefix, mapId, devBtn>>
ctorVars == <<idx, opened>>
lcVars == <<jsonlen, data, lcPages>>
rpVars == <<caller, addr, size, r, ret, hdr, nsent, nextra, discarded,
           allFull>>
selfVars == <<calibration, configuration>>
outVars == <<gbr, gbFirst, gbByte, buttons, cfgOut>>
concVars == <<gbpc, gbTook, answered>>

\* Only reads and feature reports touch the transport, so the device's
\* reports are placed right before them (and between operations).
IoPoints == {"rp_send", "rp_read", "rp_topup", "gb_topup", "flush", "ready"}

DeviceEmit ==
    /\ pc \in IoPoints
    /\ \E d \in Deliveries(Report(devBtn, devPage)) :
          /\ Len(inq) + Len(d) <= MaxQueue
          /\ inq' = inq \o d
    /\ UNCHANGED <<storeVars, concVars, ctorVars, lcVars, rpVars, selfVars, outVars,
                   devPage, pc, error, lastOp, ioDone>>

\* hiddev.read(n, ...): the bytes returned
ReadBytes(n) == IF inq = <<>> THEN <<>> ELSE Slice(Head(inq), 0, n)

\* a read that leaves the report on the queue
ReadRestKeeping == inq

\* hiddev.read(n, ...): the queue afterwards
ReadRest == IF inq = <<>> THEN <<>> ELSE Tail(inq)

\* an exception leaves __init__ without a session; on a session it reaches
\* the caller, who may go on using the session
Raise(e) ==
    /\ error' = e
    /\ pc' = IF configuration = NoMap THEN "dead" ELSE "ready"

\* no operation has returned a value
NoOutput ==
    /\ gbr' = <<>>
    /\ gbFirst' = 0
    /\ gbByte' = 0
    /\ buttons' = NoneVal
    /\ cfgOut' = NoMap

\* no readpage call is on the stack and none has returned
NoReadPage ==
    /\ caller' = "none"
    /\ addr' = 0
    /\ size' = 0
    /\ r' = <<>>
    /\ ret' = <<>>
    /\ hdr' = <<>>
    /\ nsent' = 0
    /\ nextra' = 0
    /\ discarded' = FALSE
    /\ allFull' = TRUE

(***************************************************************************)
(* readpage(addr, size)                                                     *)
(***************************************************************************)
\* the loop test comparing the command byte alone
MismatchCommandOnly(rr, a) == Slice(rr, 1, 2) # Slice(Pack(a), 0, 1)

\* r[1:4] != send[:3]
Mismatch(rr, a) == Slice(rr, 1, 4) # Slice(Pack(a), 0, 3)

Call(a, n, from) ==
    /\ addr' = a
    /\ size' = n
    /\ caller' = from
    /\ r' = <<>>
    /\ ret' = <<>>
    /\ hdr' = <<>>
    /\ nsent' = 0
    /\ nextra' = 0
    /\ discarded' = FALSE
    /\ pc' = "rp_send"
    /\ error' = "none"
    /\ UNCHANGED allFull

\* lines 142-143: pack the request and send it as a feature report; the
\* device then echoes the page of the report (bytes 2..3 after the report id)
RpSend ==
    /\ pc = "rp_send"
    /\ IF PackOk(addr)
       THEN LET rep == <<0>> \o Pack(addr)
            IN  /\ devPage' = rep[3] * 256 + rep[4]
                /\ nsent' = nsent + 1
                /\ ioDone' = TRUE
                /\ pc' = "rp_read"
                /\ UNCHANGED error
       ELSE /\ Raise("struct.error")
            /\ UNCHANGED <<devPage, nsent, ioDone>>
    /\ UNCHANGED <<storeVars, concVars, ctorVars, lcVars, selfVars, outVars, inq, lastOp,
                   caller, addr, size, r, ret, hdr, nextra, discarded, allFull>>

\* lines 144 and 146: r = read(68, timeout=1000)
RpRead ==
    /\ pc = "rp_read"
    /\ r' = ReadBytes(ReportLen)
    /\ inq' = ReadRest
    /\ pc' = "rp_test"
    /\ ioDone' = TRUE
    /\ UNCHANGED <<storeVars, concVars, ctorVars, lcVars, selfVars, outVars, devPage,
                   error, lastOp, caller, addr, size, ret, hdr, nsent, nextra,
                   discarded, allFull>>

\* the loop going back to line 143 on a report that does not match
RpTestResending ==
    /\ pc = "rp_test"
    /\ IF Mismatch(r, addr)
       THEN /\ pc' = "rp_send"
            /\ discarded' = (discarded \/ r # <<>>)
            /\ UNCHANGED allFull
       ELSE /\ pc' = IF Len(r) < ReportLen THEN "rp_topup" ELSE "rp_ret"
            /\ allFull' = (allFull /\ (caller = "ready" \/ Len(r) = ReportLen))
            /\ UNCHANGED discarded
    /\ UNCHANGED <<storeVars, concVars, lcVars, ctorVars, selfVars, outVars,
                   devPage, inq, error, lastOp, caller, addr, size, r, ret,
                   hdr, nsent, nextra, ioDone>>

\* lines 145 and 147: the loop test, then the length test
RpTest ==
    /\ pc = "rp_test"
    /\ IF Mismatch(r, addr)
       THEN /\ pc' = "rp_read"
            /\ discarded' = (discarded \/ r # <<>>)
            /\ UNCHANGED allFull
       ELSE /\ pc' = IF Len(r) < ReportLen THEN "rp_topup" ELSE "rp_ret"
            /\ allFull' = (allFull /\ (caller = "ready" \/ Len(r) = ReportLen))
            /\ UNCHANGED discarded
    /\ UNCHANGED <<storeVars, concVars, ctorVars, lcVars, selfVars, outVars, devPage,
                   inq, error, lastOp, caller, addr, size, r, ret, hdr, nsent,
                   nextra, ioDone>>

\* line 148: r += read(68 - len(r), timeout=10)
RpTopUp ==
    /\ pc = "rp_topup"
    /\ r' = r \o ReadBytes(ReportLen - Len(r))
    /\ inq' = ReadRest
    /\ nextra' = nextra + 1
    /\ ioDone' = TRUE
    /\ pc' = "rp_ret"
    /\ UNCHANGED <<storeVars, concVars, ctorVars, lcVars, selfVars, outVars, devPage,
                   error, lastOp, caller, addr, size, ret, hdr, nsent,
                   discarded, allFull>>

\* the value readpage returns: r[4:4+size]
Payload(rr, n) == Slice(rr, 4, 4 + n)

\* lines 153-154: assert the echo, return the payload to the caller
RpReturn ==
    /\ pc = "rp_ret"
    /\ IF Mismatch(r, addr)
       THEN Raise("AssertionError") /\ UNCHANGED <<ret, hdr, lastOp>>
       ELSE /\ ret' = Payload(r, size)
            /\ hdr' = Slice(r, 1, 4)
            /\ pc' = caller
            /\ lastOp' = IF caller = "ready" THEN "readpage" ELSE lastOp
            /\ UNCHANGED error
    /\ r' = <<>>
    /\ nsent' = 0
    /\ nextra' = 0
    /\ discarded' = FALSE
    /\ UNCHANGED <<storeVars, concVars, ctorVars, lcVars, selfVars, outVars, devPage,
                   inq, caller, addr, size, allFull, ioDone>>

(***************************************************************************)
(* Numbers: rationals <<n, d>> in lowest terms, d > 0.                      *)
(***************************************************************************)
Abs(x) == IF x < 0 THEN -x ELSE x

GCD[a \in Nat, b \in Nat] == IF b = 0 THEN a ELSE GCD[b, a % b]

Norm(n, d) ==
    LET g == GCD[Abs(n), Abs(d)]
        sg == IF d < 0 THEN -1 ELSE 1
    IN  <<(sg * n) \div g, (sg * d) \div g>>

Num(i) == <<i, 1>>
RMul(a, b) == Norm(a[1] * b[1], a[2] * b[2])
RDiv(a, b) == Norm(a[1] * b[2], a[2] * b[1])      \* b # 0
RNeg(a) == <<-a[1], a[2]>>
IsZero(a) == a[1] = 0

\* floor of the square root
Isqrt(x) == CHOOSE k \in 0..Min(x, 46339) : k * k <= x /\ (k + 1) * (k + 1) > x

\* sin(atan(x)) = x / sqrt(1 + x^2), the root taken to 1/Scale
SinAtan(a) ==
    LET h == Isqrt((a[1] * a[1] + a[2] * a[2]) * Scale * Scale)
    IN  Norm(a[1] * Scale, h)

(***************************************************************************)
(* JSON values of the calibration: a scalar, or an envelope object holding  *)
(* a scalar under "value".                                                  *)
(***************************************************************************)
Scalar(q) == [dict |-> FALSE, num |-> q]
Envelope(q) == [dict |-> TRUE, value |-> Scalar(q)]

RawMap(k) ==
    CASE k = 1 ->
           [screenW |-> Scalar(Num(2560)), screenH |-> Scalar(Num(1600)),
            slope |-> Scalar(Num(5)), DPI |-> Scalar(Num(338)),
            pitch |-> Scalar(<<1189, 25>>), center |-> Scalar(<<1, 2>>)]
      [] k = 2 ->
           [screenW |-> Envelope(Num(1536)), screenH |-> Envelope(Num(2048)),
            slope |-> Envelope(<<-3, 4>>), DPI |-> Envelope(Num(324)),
            pitch |-> Envelope(<<50, 1>>), center |-> Scalar(<<1, 2>>),
            serial |-> Scalar(Num(7)), ri |-> Scalar(Num(7))]
      [] OTHER ->
           [screenW |-> Envelope(Num(2560)), screenH |-> Envelope(Num(1600)),
            slope |-> Envelope(<<4, 3>>), DPI |-> Envelope(Num(0)),
            pitch |-> Envelope(<<1189, 25>>)]

\* json.loads(text.decode('ascii')): the map whose text this is
Decode(text) ==
    IF \E i \in 1..Len(text) : text[i] >= 128 THEN "UnicodeDecodeError"
    ELSE IF \E k \in MapIds : text = TextOf(k) THEN "ok"
    ELSE "JSONDecodeError"

JsonLoads(text) == RawMap(CHOOSE k \in MapIds : text = TextOf(k))

(***************************************************************************)
(* calculate_derived                                                        *)
(***************************************************************************)
\* value['value'] if isinstance(value, dict) else value
Unwrap(v) == IF v.dict THEN v.value ELSE v

\* line 111
Unwrapped(cal) == [key \in DOMAIN cal |-> Unwrap(cal[key])]

\* the exception lines 114-116 raise on cfg, or "none"
DeriveError(cfg) ==
    IF {"screenH", "screenW", "slope"} \ DOMAIN cfg # {} THEN "KeyError"
    ELSE IF IsZero(RMul(cfg["screenW"].num, cfg["slope"].num))
         THEN "ZeroDivisionError"
    ELSE IF {"DPI", "pitch"} \ DOMAIN cfg # {} THEN "KeyError"
    ELSE IF IsZero(cfg["DPI"].num) THEN "ZeroDivisionError"
    ELSE "none"

Tilt(cfg) ==
    RDiv(cfg["screenH"].num, RMul(cfg["screenW"].num, cfg["slope"].num))

\* the leading minus of line 115 left out
PitchUnsigned(cfg) ==
    RMul(RMul(RDiv(cfg["screenW"].num, cfg["DPI"].num), cfg["pitch"].num),
         SinAtan(cfg["slope"].num))

Pitch(cfg) ==
    RMul(RMul(RDiv(RNeg(cfg["screenW"].num), cfg["DPI"].num),
              cfg["pitch"].num),
         SinAtan(cfg["slope"].num))

Subp(cfg) == RDiv(Num(1), RMul(Num(3), cfg["screenW"].num))

\* lines 119-120 left out
DerivedWithoutRiBi(cal) ==
    LET cfg == Unwrapped(cal)
    IN  [key \in DOMAIN cfg \cup {"tilt", "pitch", "subp"} |->
           CASE key = "tilt" -> Scalar(Tilt(cfg))
             [] key = "pitch" -> Scalar(Pitch(cfg))
             [] key = "subp" -> Scalar(Subp(cfg))
             [] OTHER -> cfg[key]]

\* lines 111-120: the dictionary stored as self.configuration
Derived(cal) ==
    LET cfg == Unwrapped(cal)
    IN  [key \in DOMAIN cfg \cup {"tilt", "pitch", "subp", "ri", "bi"} |->
           CASE key = "tilt" -> Scalar(Tilt(cfg))
             [] key = "pitch" -> Scalar(Pitch(cfg))
             [] key = "subp" -> Scalar(Subp(cfg))
             [] key = "ri" -> Scalar(Num(0))
             [] key = "bi" -> Scalar(Num(2))
             [] OTHER -> cfg[key]]

\* the derived values written into the raw map itself (cfg = self.calibration)
AfterDeriveInPlace(cal) ==
    [calibration |-> Derived(cal), configuration |-> Derived(cal)]

\* the session's attributes after lines 111-123: a new dictionary is built
\* and stored; the raw map is only read
AfterDerive(cal) == [calibration |-> cal, configuration |-> Derived(cal)]

\* calculate_derived, called by __init__ (pc = "cd") or on the session; when
\* __init__ returns, loadconfig's locals are gone
CalculateDerived ==
    /\ pc \in {"cd", "ready"}
    /\ LET e == DeriveError(Unwrapped(calibration))
       IN  IF e = "none"
           THEN /\ configuration' = AfterDerive(calibration).configuration
                /\ calibration' = AfterDerive(calibration).calibration
                /\ pc' = "ready"
                /\ error' = "none"
                /\ lastOp' = IF pc = "cd" THEN "__init__"
                                           ELSE "calculate_derived"
           ELSE /\ Raise(e)
                /\ UNCHANGED <<selfVars, lastOp>>
    /\ jsonlen' = <<0, 0>>
    /\ data' = <<>>
    /\ lcPages' = <<>>
    /\ NoReadPage
    /\ NoOutput
    /\ UNCHANGED <<storeVars, concVars, ctorVars, devPage, inq, ioDone>>

(***************************************************************************)
(* __init__                                                                 *)
(***************************************************************************)
\* lines 76-89: one turn of the for loop, or its else clause
InitLoop ==
    /\ pc = "ctor"
    /\ IF idx > Len(enum)
       THEN Raise("IOError") /\ UNCHANGED ctorVars
       ELSE IF ~Matches(enum[idx])
       THEN idx' = idx + 1 /\ UNCHANGED <<opened, pc, error>>
       ELSE IF ~pprintDefined
       THEN Raise("NameError") /\ UNCHANGED ctorVars
       ELSE /\ opened' = Append(opened, <<enum[idx].vendor_id,
                                         enum[idx].product_id>>)
            /\ pc' = "lc_start"
            /\ UNCHANGED <<idx, error>>
    /\ UNCHANGED <<storeVars, concVars, lcVars, rpVars, selfVars, outVars, devPage, inq,
                   lastOp, ioDone>>

(***************************************************************************)
(* loadconfig                                                               *)
(***************************************************************************)
\* line 99: self.readpage(0, 4)
LcStart ==
    /\ pc = "lc_start"
    /\ Call(0, 4, "lc_prefix")
    /\ lcPages' = <<<<0, 4>>>>
    /\ UNCHANGED <<storeVars, concVars, ctorVars, selfVars, outVars, devPage, inq,
                   lastOp, jsonlen, data, ioDone>>

\* line 100: assert jsonlen != 0xffffffff
LengthOk(len) == len # AllOnes

\* lines 99-101: unpack the prefix, check it, start with an empty buffer
LcPrefix ==
    /\ pc = "lc_prefix"
    /\ IF Len(ret) # 4
       THEN Raise("struct.error") /\ UNCHANGED <<jsonlen, data>>
       ELSE /\ jsonlen' = UnpackPlus4(ret)
            /\ IF LengthOk(UnpackPlus4(ret))
               THEN pc' = "lc_loop" /\ data' = <<>> /\ UNCHANGED error
               ELSE Raise("AssertionError") /\ UNCHANGED data
    /\ UNCHANGED <<storeVars, concVars, ctorVars, rpVars, selfVars, outVars, devPage,
                   inq, lastOp, lcPages, ioDone>>

\* lines 102-105: the loop test, and the next readpage call
LcLoop ==
    /\ pc = "lc_loop"
    /\ IF BigGreater(jsonlen, Len(data))
       THEN LET page == Len(data) \div PageSize
                l == Chunk(jsonlen, page)
            IN  /\ Len(lcPages) < MaxCalls
                /\ Call(page, l, "lc_page")
                /\ lcPages' = Append(lcPages, <<page, l>>)
       ELSE /\ pc' = "lc_decode"
            /\ UNCHANGED <<rpVars, lcPages, error>>
    /\ UNCHANGED <<storeVars, concVars, ctorVars, selfVars, outVars, devPage, inq,
                   lastOp, jsonlen, data, ioDone>>

\* data += b
SpliceAppending(d, page, b) == d \o b

\* data[64*page:] = b
Splice(d, page, b) == SubSeq(d, 1, Min(PageSize * page, Len(d))) \o b

\* line 105: store what readpage returned (page is readpage's addr)
LcPage ==
    /\ pc = "lc_page"
    /\ data' = Splice(data, addr, ret)
    /\ pc' = "lc_loop"
    /\ UNCHANGED <<storeVars, concVars, ctorVars, rpVars, selfVars, outVars, devPage,
                   inq, lastOp, error, jsonlen, lcPages, ioDone>>

\* lines 106 and 83: decode data[4:], store the map as self.calibration
LcDecode ==
    /\ pc = "lc_decode"
    /\ LET text == Slice(data, 4, Len(data))
       IN  IF Decode(text) = "ok"
           THEN /\ calibration' = JsonLoads(text)
                /\ pc' = "cd"
                /\ UNCHANGED error
           ELSE Raise(Decode(text)) /\ UNCHANGED calibration
    /\ UNCHANGED <<storeVars, concVars, ctorVars, lcVars, rpVars, outVars, devPage, inq,
                   lastOp, configuration, ioDone>>

(***************************************************************************)
(* Operations on the session.  Each starts with the values the previous     *)
(* operation returned dropped.                                              *)
(***************************************************************************)
UserPages == {1, 65536}
UserSizes == {64}

\* a caller's readpage(p, n)
ReadPage ==
    /\ pc = "ready"
    /\ \E p \in UserPages : \E n \in UserSizes : Call(p, n, "ready")
    /\ lastOp' = "none"
    /\ NoOutput
    /\ UNCHANGED <<storeVars, concVars, ctorVars, lcVars, selfVars, devPage, inq, ioDone>>

\* what get_buttons returns: lines 132-139, rr being r after line 133 when
\* the first read was short and r itself otherwise
ButtonsOf(first, rr) ==
    IF first < ReportLen
    THEN IF rr # <<>> THEN rr[1] ELSE NoneVal
    ELSE NoneVal

\* lines 131-132: the blocking read, which waits for a report
GetButtons ==
    /\ pc = "ready"
    /\ inq # <<>>
    /\ gbFirst' = Len(ReadBytes(ReportLen))
    /\ gbByte' = ReadBytes(ReportLen)[1]
    /\ inq' = ReadRest
    /\ ioDone' = TRUE
    /\ error' = "none"
    /\ cfgOut' = NoMap
    /\ NoReadPage
    /\ IF Len(ReadBytes(ReportLen)) < ReportLen
       THEN /\ pc' = "gb_topup"
            /\ gbr' = ReadBytes(ReportLen)
            /\ buttons' = NoneVal
            /\ lastOp' = "none"
       ELSE /\ buttons' = ButtonsOf(ReportLen, ReadBytes(ReportLen))
            /\ gbr' = <<>>
            /\ lastOp' = "get_buttons"
            /\ UNCHANGED pc
    /\ UNCHANGED <<storeVars, concVars, ctorVars, lcVars, selfVars, devPage>>

\* lines 133-139: the supplementary non-blocking read, and the result
GbTopUp ==
    /\ pc = "gb_topup"
    /\ inq' = ReadRest
    /\ ioDone' = TRUE
    /\ buttons' = ButtonsOf(gbFirst, gbr \o ReadBytes(ReportLen - Len(gbr)))
    /\ gbr' = <<>>
    /\ lastOp' = "get_buttons"
    /\ pc' = "ready"
    /\ UNCHANGED <<storeVars, concVars, ctorVars, lcVars, rpVars, selfVars, devPage,
                   error, gbFirst, gbByte, cfgOut>>

\* lines 93-95: one non-blocking read of flush's loop
Flush ==
    /\ pc \in {"ready", "flush"}
    /\ inq' = ReadRest
    /\ ioDone' = TRUE
    /\ error' = "none"
    /\ NoReadPage
    /\ NoOutput
    /\ IF ReadBytes(ReportLen) # <<>>
       THEN pc' = "flush" /\ lastOp' = "none"
       ELSE pc' = "ready" /\ lastOp' = "flush"
    /\ UNCHANGED <<storeVars, concVars, ctorVars, lcVars, selfVars, devPage>>

\* lines 125-127
GetConfig ==
    /\ pc = "ready"
    /\ cfgOut' = configuration
    /\ lastOp' = "get_config"
    /\ error' = "none"
    /\ NoReadPage
    /\ gbr' = <<>>
    /\ gbFirst' = 0
    /\ gbByte' = 0
    /\ buttons' = NoneVal
    /\ UNCHANGED <<storeVars, concVars, ctorVars, lcVars, selfVars, devPage, inq, pc,
                   ioDone>>

\* the replacement fields of shaders['mpv']
ShaderKeys ==
    {"screenW", "screenH", "tilt", "pitch", "center", "subp", "ri", "bi",
     "tilesX", "tilesY"}

\* the keyword arguments a caller passes as **extra
Extras == {NoMap, [tilesX |-> Scalar(Num(5)), tilesY |-> Scalar(Num(9))]}

\* what is left unchanged by an operation that only computes a result
Computes ==
    /\ NoReadPage
    /\ NoOutput
    /\ UNCHANGED <<storeVars, concVars, ctorVars, lcVars, devPage, inq, pc, ioDone>>

\* shader with the extras merged into the stored dictionary
ShaderStoringExtras ==
    /\ pc = "ready"
    /\ \E extra \in Extras :
          /\ configuration' =
                [k \in DOMAIN configuration \cup DOMAIN extra |->
                    IF k \in DOMAIN extra THEN extra[k] ELSE configuration[k]]
          /\ error' = "none"
          /\ lastOp' = "shader"
    /\ Computes
    /\ UNCHANGED calibration

\* lines 156-157: format the template from the configuration and the extras
Shader ==
    /\ pc = "ready"
    /\ \E extra \in Extras :
          IF DOMAIN configuration \cap DOMAIN extra # {}
          THEN error' = "TypeError" /\ lastOp' = "none"
          ELSE IF ~(ShaderKeys \subseteq DOMAIN configuration \cup DOMAIN extra)
          THEN error' = "KeyError" /\ lastOp' = "none"
          ELSE error' = "none" /\ lastOp' = "shader"
    /\ Computes
    /\ UNCHANGED selfVars

\* lines 159-196: look for the display among the monitors of the platform;
\* it is found or not
Screen ==
    /\ pc = "ready"
    /\ \E found \in BOOLEAN :
          IF found /\ {"screenW", "screenH"} \subseteq DOMAIN configuration
          THEN error' = "none" /\ lastOp' = "screen"
          ELSE error' = "IOError" /\ lastOp' = "none"
    /\ Computes
    /\ UNCHANGED selfVars

(***************************************************************************)
(* The specification.                                                       *)
(***************************************************************************)
Init ==
    /\ \E sc \in Scenarios :
          /\ pprintDefined = sc.pprint
          /\ enum = sc.enum
          /\ prefix = sc.store.prefix
          /\ mapId = sc.store.mapId
          /\ devBtn = sc.btn
    /\ devPage \in InitialPages
    /\ inq = <<>>
    /\ pc = "ctor"
    /\ error = "none"
    /\ idx = 1
    /\ opened = <<>>
    /\ jsonlen = <<0, 0>>
    /\ data = <<>>
    /\ lcPages = <<>>
    /\ allFull = TRUE
    /\ caller = "none"
    /\ addr = 0
    /\ size = 0
    /\ r = <<>>
    /\ ret = <<>>
    /\ hdr = <<>>
    /\ nsent = 0
    /\ nextra = 0
    /\ discarded = FALSE
    /\ ioDone = FALSE
    /\ calibration = NoMap
    /\ configuration = NoMap
    /\ gbr = <<>>
    /\ gbFirst = 0
    /\ gbByte = 0
    /\ buttons = NoneVal
    /\ cfgOut = NoMap
    /\ lastOp = "none"
    /\ gbpc = "idle"
    /\ gbTook = <<>>
    /\ answered = FALSE

\* the steps the interpreter takes on its own once an operation is running
Program ==
    \/ InitLoop \/ LcStart \/ LcPrefix \/ LcLoop \/ LcPage \/ LcDecode
    \/ (pc = "cd" /\ CalculateDerived)
    \/ RpSend \/ RpRead \/ RpTest \/ RpTopUp \/ RpReturn
    \/ GbTopUp
    \/ (pc = "flush" /\ Flush)

Next ==
    \/ DeviceEmit
    \/ InitLoop
    \/ LcStart
    \/ LcPrefix
    \/ LcLoop
    \/ LcPage
    \/ LcDecode
    \/ CalculateDerived
    \/ RpSend
    \/ RpRead
    \/ RpTest
    \/ RpTopUp
    \/ RpReturn
    \/ ReadPage
    \/ GetButtons
    \/ GbTopUp
    \/ Flush
    \/ GetConfig
    \/ Shader
    \/ Screen

Spec == Init /\ [][Next]_vars

\* the interpreter keeps running; the device and the callers owe nothing
FairSpec == Spec /\ WF_vars(Program)

(***************************************************************************)
(* Two callers on one handle, with no lock: one calls readpage, the other   *)
(* get_buttons.  Each read or feature report is one step, so the two calls  *)
(* interleave between their I/O operations.  The device answers a page      *)
(* request once and sends nothing unasked.                                  *)
(***************************************************************************)
\* a session as __init__ leaves it: first matching descriptor opened, the
\* store of 10 bytes of text loaded from page 0, nothing left on the queue
Constructed ==
    /\ pprintDefined = TRUE
    /\ enum = <<Mouse, ByProduct, ByManufacturer>>
    /\ prefix = BE32(TextLen(1))
    /\ mapId = 1
    /\ devBtn \in {5, 21}
    /\ devPage = 0
    /\ inq = <<>>
    /\ pc = "ready"
    /\ error = "none"
    /\ idx = 2
    /\ opened = <<<<1240, 61310>>>>
    /\ jsonlen = <<0, 0>>
    /\ data = <<>>
    /\ lcPages = <<>>
    /\ allFull = TRUE
    /\ caller = "none"
    /\ addr = 0
    /\ size = 0
    /\ r = <<>>
    /\ ret = <<>>
    /\ hdr = <<>>
    /\ nsent = 0
    /\ nextra = 0
    /\ discarded = FALSE
    /\ ioDone = TRUE
    /\ calibration = RawMap(1)
    /\ configuration = Derived(RawMap(1))
    /\ gbr = <<>>
    /\ gbFirst = 0
    /\ gbByte = 0
    /\ buttons = NoneVal
    /\ cfgOut = NoMap
    /\ lastOp = "__init__"

ConcInit == Constructed /\ gbpc = "idle" /\ gbTook = <<>> /\ answered = FALSE

\* the device's answer to the feature report of line 143
DeviceAnswer ==
    /\ nsent = 1
    /\ ~answered
    /\ \E d \in Deliveries(Report(devBtn, devPage)) :
          /\ Len(inq) + Len(d) <= MaxQueue
          /\ inq' = inq \o d
    /\ answered' = TRUE
    /\ UNCHANGED <<storeVars, ctorVars, lcVars, rpVars, selfVars, outVars,
                   devPage, pc, error, lastOp, ioDone, gbpc, gbTook>>

\* the first caller's readpage(p, n)
ConcReadPage ==
    /\ pc = "ready"
    /\ \E p \in UserPages : \E n \in UserSizes : Call(p, n, "ready")
    /\ lastOp' = "none"
    /\ answered' = FALSE
    /\ gbTook' = <<>>
    /\ UNCHANGED <<storeVars, ctorVars, lcVars, selfVars, outVars, devPage,
                   inq, ioDone, gbpc>>

\* the second caller's get_buttons, lines 131-132 (and 134-139 never reached
\* for a full report): the blocking read
ConcGetButtons ==
    /\ gbpc = "idle"
    /\ inq # <<>>
    /\ gbFirst' = Len(ReadBytes(ReportLen))
    /\ gbByte' = ReadBytes(ReportLen)[1]
    /\ gbTook' = Append(gbTook, ReadBytes(ReportLen))
    /\ inq' = ReadRest
    /\ IF Len(ReadBytes(ReportLen)) < ReportLen
       THEN /\ gbpc' = "gb_topup"
            /\ gbr' = ReadBytes(ReportLen)
            /\ buttons' = NoneVal
       ELSE /\ buttons' = ButtonsOf(ReportLen, ReadBytes(ReportLen))
            /\ gbr' = <<>>
            /\ UNCHANGED gbpc
    /\ UNCHANGED <<storeVars, ctorVars, lcVars, rpVars, selfVars, devPage, pc,
                   error, lastOp, ioDone, cfgOut, answered>>

\* the second caller's get_buttons, lines 133-139
ConcGbTopUp ==
    /\ gbpc = "gb_topup"
    /\ inq' = ReadRest
    /\ gbTook' = IF inq = <<>> THEN gbTook
                 ELSE Append(gbTook, ReadBytes(ReportLen - Len(gbr)))
    /\ buttons' = ButtonsOf(gbFirst, gbr \o ReadBytes(ReportLen - Len(gbr)))
    /\ gbr' = <<>>
    /\ gbpc' = "idle"
    /\ UNCHANGED <<storeVars, ctorVars, lcVars, rpVars, selfVars, devPage, pc,
                   error, lastOp, ioDone, gbFirst, gbByte, cfgOut, answered>>

ConcNext ==
    \/ DeviceAnswer
    \/ ConcReadPage
    \/ RpSend
    \/ RpRead
    \/ RpTest
    \/ RpTopUp
    \/ RpReturn
    \/ ConcGetButtons
    \/ ConcGbTopUp

ConcSpec == ConcInit /\ [][ConcNext]_vars

(***************************************************************************)
(* Properties.                                                              *)
(***************************************************************************)
Echoes(rr, a) ==
    Len(rr) >= 4 /\ rr[2] = 0 /\ rr[3] = a \div 256 /\ rr[4] = a % 256

NoMatch ==
    \A i \in 1..Len(enum) :
        /\ enum[i].product_string # "HoloPlay"
        /\ enum[i].manufacturer_string # "Looking Glass Factory"

FirstMatch ==
    CHOOSE i \in 1..Len(enum) :
        /\ enum[i].product_string = "HoloPlay"
           \/ enum[i].manufacturer_string = "Looking Glass Factory"
        /\ \A j \in 1..(i - 1) :
              /\ enum[j].product_string # "HoloPlay"
              /\ enum[j].manufacturer_string # "Looking Glass Factory"

\* the declared length fits 16 bits (so does every page index of the load)
SmallLength == prefix[1] = 0 /\ prefix[2] = 0

Declared == prefix[3] * 256 + prefix[4]

InReadPage == pc \in {"rp_send", "rp_read", "rp_test", "rp_topup", "rp_ret"}

\* C1: when the length prefix read from page 0 is 0xFFFFFFFF (jsonlen is then
\* 0x100000003), loadconfig makes no readpage call beyond the prefix read and
\* goes no further than its length check, where the load fails with an error.
C1_SentinelRejected ==
    jsonlen = <<65536, 3>> =>
        /\ lcPages = <<<<0, 4>>>>
        /\ pc \in {"lc_loop", "dead"}
        /\ pc = "dead" => error # "none"

\* C2: readpage leaves its read loop only with a report whose bytes 1..3
\* are (0, page) of the request, and what it returns comes from such a report.
C2_EchoChecked ==
    /\ pc \in {"rp_topup", "rp_ret"} => Echoes(r, addr)
    /\ hdr # <<>> => hdr = <<0, addr \div 256, addr % 256>>

\* C2 witness: a call about to return a full matching report after it has
\* discarded a report that did not match.
C2_Witness ==
    pc = "rp_ret" /\ discarded /\ Len(r) = ReportLen /\ Echoes(r, addr)

\* C3 as claimed: for every declared length other than 0xFFFFFFFF, when every
\* report accepted was a full one, loadconfig does not fail before decoding
\* and ends with a buffer of L+4 bytes equal to the start of the store, whose
\* bytes 4.. are the text decoded.
C3_EveryLength ==
    (prefix # Sentinel /\ allFull) =>
        /\ pc = "dead" => error \notin {"AssertionError", "struct.error"}
        /\ pc = "lc_decode" =>
              /\ SmallLength
              /\ Len(data) = Declared + 4
              /\ data = StoreBytes(Declared + 4)
        /\ pc = "cd" => calibration = RawMap(mapId)

\* C3 for the declared lengths below 2^16 only.
C3_Reassembled ==
    (SmallLength /\ allFull) =>
        /\ pc = "dead" => error \notin {"AssertionError", "struct.error"}
        /\ pc = "lc_decode" =>
              /\ Len(data) = Declared + 4
              /\ data = StoreBytes(Declared + 4)
        /\ pc = "cd" => calibration = RawMap(mapId)

\* C3 witness: a two-page load, every report accepted in full, about to decode.
C3_Witness ==
    /\ pc = "lc_decode"
    /\ allFull
    /\ Len(data) = 74
    /\ lcPages = <<<<0, 4>>, <<0, 64>>, <<1, 10>>>>

\* C4: when the blocking read of get_buttons returned a full 68-byte report
\* whose first byte b is in 0..15, get_buttons returns b.
C4_FullReportButtons ==
    (lastOp = "get_buttons" /\ gbFirst = 68 /\ gbByte \in 0..15) =>
        buttons = gbByte

\* C5: every readpage call ends: it returns or fails.
C5_ReadPageTerminates == InReadPage ~> ~InReadPage

\* C6: whenever readpage(p, n) with n <= 64 has returned, it returned exactly
\* n bytes.
C6_ExactLength == (hdr # <<>> /\ size <= 64) => Len(ret) = size

\* C7: when no descriptor matches, __init__ fails with the device-not-found
\* error, without opening a device and without a feature report or a read.
C7_NoMatchNoOpen ==
    NoMatch =>
        /\ opened = <<>>
        /\ ~ioDone
        /\ pc \in {"ctor", "dead"}
        /\ pc = "dead" => error = "IOError"

\* C7 witness: a non-empty enumeration without a match, and the error raised.
C7_Witness == NoMatch /\ enum # <<>> /\ pc = "dead" /\ error = "IOError"

\* C8: once the loop of __init__ is over and some descriptor matches, exactly
\* the first matching descriptor has been opened, and never more than one.
C8_FirstMatchOpened ==
    /\ Len(opened) <= 1
    /\ (pc # "ctor" /\ ~NoMatch) =>
          opened = <<<<enum[FirstMatch].vendor_id,
                       enum[FirstMatch].product_id>>>>

\* C9: every button state get_buttons returns is in 0..15, the low 4 bits of
\* the first byte of the report read.
C9_ButtonsRange ==
    (lastOp = "get_buttons" /\ buttons # NoneVal) =>
        buttons \in 0..15 /\ buttons = gbByte % 16

\* C10: calculate_derived leaves the raw calibration map as it was, and a
\* further call on the session leaves the configuration as it was.
C10_DerivePure ==
    [][((pc = "cd" /\ pc' = "ready")
        \/ (pc = "ready" /\ lastOp' = "calculate_derived")) =>
          /\ calibration' = calibration
          /\ configuration # NoMap => configuration' = configuration]_vars

\* C10 witness: a second call has returned, the raw pitch still in the raw
\* map and the derived one in the configuration.
C10_Witness ==
    /\ lastOp = "calculate_derived"
    /\ calibration = RawMap(mapId)
    /\ configuration["pitch"] # Unwrap(calibration["pitch"])

DerivedKeys == {"tilt", "pitch", "subp", "ri", "bi"}

\* the raw value of key k as the configuration should hold it
Plain(k) == IF calibration[k].dict THEN calibration[k].value ELSE calibration[k]

\* C11 as claimed: the configuration has the raw keys and tilt, pitch, subp,
\* ri, bi; every raw key other than pitch holds the raw value (the value
\* field of an envelope); pitch is not the raw pitch; ri = 0 and bi = 2.
C11_EveryRawKey ==
    configuration # NoMap =>
        /\ DOMAIN configuration = DOMAIN calibration \cup DerivedKeys
        /\ \A k \in DOMAIN calibration \ {"pitch"} : configuration[k] = Plain(k)
        /\ configuration["pitch"] # Plain("pitch")
        /\ configuration["ri"] = Scalar(Num(0))
        /\ configuration["bi"] = Scalar(Num(2))

\* C11 with the raw keys named tilt, pitch, subp, ri or bi set apart: those
\* five hold the derived values whatever the raw map contains.
C11_RawKeysKept ==
    configuration # NoMap =>
        /\ DOMAIN configuration = DOMAIN calibration \cup DerivedKeys
        /\ \A k \in DOMAIN calibration \ DerivedKeys : configuration[k] = Plain(k)
        /\ configuration["pitch"] # Plain("pitch")
        /\ configuration["ri"] = Scalar(Num(0))
        /\ configuration["bi"] = Scalar(Num(2))

\* C11 witness: a configuration derived from a map with envelopes, scalars
\* and a raw key named ri.
C11_Witness ==
    /\ configuration # NoMap
    /\ "ri" \in DOMAIN calibration
    /\ calibration["screenW"].dict
    /\ ~calibration["center"].dict
    /\ configuration["screenW"] = Scalar(Num(1536))

\* the unwrapped raw value of key k, as a rational
Raw(k) == Plain(k).num

Positive(q) == q[1] > 0 /\ q[2] > 0

\* C12: tilt * (screenW * slope) = screenH, subp * (3 * screenW) = 1,
\* pitch = -((screenW / DPI) * raw pitch * sin(atan(slope))) with the sine
\* having the sign of slope and magnitude below 1; the derived pitch is
\* negative when screenW, DPI, raw pitch and slope are positive; and
\* screenW = 2560, screenH = 1600, slope = 5 give tilt = 1/8.
C12_Formulas ==
    configuration # NoMap =>
        LET s == SinAtan(Raw("slope"))
        IN  /\ RMul(configuration["tilt"].num,
                    RMul(Raw("screenW"), Raw("slope"))) = Raw("screenH")
            /\ RMul(configuration["subp"].num,
                    RMul(Num(3), Raw("screenW"))) = Num(1)
            /\ configuration["pitch"].num =
                  RNeg(RMul(RMul(RDiv(Raw("screenW"), Raw("DPI")), Raw("pitch")), s))
            /\ (s[1] > 0) = (Raw("slope")[1] > 0)
            /\ Abs(s[1]) < s[2]
            /\ (Positive(Raw("screenW")) /\ Positive(Raw("DPI"))
                /\ Positive(Raw("pitch")) /\ Positive(Raw("slope")))
                  => configuration["pitch"].num[1] < 0
            /\ (Raw("screenW") = Num(2560) /\ Raw("screenH") = Num(1600)
                /\ Raw("slope") = Num(5))
                  => configuration["tilt"].num = <<1, 8>>

\* C12 witness: the configuration of screenW = 2560, screenH = 1600, slope = 5
\* with positive DPI and raw pitch: tilt 1/8 and a negative pitch.
C12_Witness ==
    /\ configuration # NoMap
    /\ calibration["screenW"] = Scalar(Num(2560))
    /\ calibration["slope"] = Scalar(Num(5))
    /\ configuration["tilt"] = Scalar(<<1, 8>>)
    /\ configuration["pitch"].num[1] < 0

\* C13: once the constructor has returned, no step of any operation of the
\* session changes the stored configuration or the raw calibration map.
C13_Immutable ==
    [][configuration # NoMap =>
          /\ configuration' = configuration
          /\ calibration' = calibration]_vars

\* C13 witness: shader or screen has returned on a session whose
\* configuration and raw map are the constructor's.
C13_Witness ==
    /\ lastOp \in {"shader", "screen"}
    /\ configuration # NoMap
    /\ configuration["bi"] = Scalar(Num(2))
    /\ calibration = RawMap(mapId)

\* C14: whenever readpage(p, n) has returned n bytes, they are bytes 0..n-1
\* of page p of the device store, however the reports arrived.
C14_PayloadIsPage ==
    (hdr # <<>> /\ Len(ret) = size) => ret = SubSeq(PageOf(addr), 1, size)

\* C15: after the prefix read no page index is requested twice during one
\* load, and a load that failed in readpage or on its result stored neither
\* a calibration nor a configuration.
C15_NoRetries ==
    /\ \A i, j \in 2..Len(lcPages) : i # j => lcPages[i][1] # lcPages[j][1]
    /\ (pc = "dead" /\ error \in {"AssertionError", "struct.error"}) =>
          calibration = NoMap /\ configuration = NoMap

\* the second caller's reads took a piece carrying the header of the answer
\* to the first caller's outstanding request
Stolen == answered /\ \E i \in 1..Len(gbTook) : Echoes(gbTook[i], addr)

\* C16: with two callers on one handle, once get_buttons has consumed the
\* report answering the outstanding page request, the readpage call does not
\* receive its response: it has accepted no report and is still reading.
C16_AnswerLost ==
    Stolen =>
        /\ hdr = <<>>
        /\ pc \in {"rp_read", "rp_test"}
        /\ pc = "rp_test" => Mismatch(r, addr)

\* C16 witness: get_buttons took the whole 68-byte answer to the request
\* outstanding, and a read of the readpage call has since returned nothing.
C16_Witness ==
    /\ Stolen
    /\ Len(gbTook[1]) = ReportLen
    /\ gbpc = "idle"
    /\ pc = "rp_test"
    /\ r = <<>>
    /\ inq = <<>>

\* C17: no page request of the calibration load is sent before a drain of
\* the handle has completed: when loadconfig's readpage sends its feature
\* report, a read has already been issued on the handle.
C17_FlushedBeforeLoad ==
    [][(pc = "rp_send" /\ pc' = "rp_read"
        /\ caller \in {"lc_prefix", "lc_page"}) => ioDone]_vars

\* loadconfig is past its prefix read
InLoad ==
    \/ pc \in {"lc_loop", "lc_page", "lc_decode"}
    \/ InReadPage /\ caller = "lc_page"

\* the readpage calls of the load whose result is in the buffer
Stored == IF pc \in {"lc_loop", "lc_decode"} THEN Len(lcPages) ELSE Len(lcPages) - 1

\* bytes asked for by the calls 2..n of the load
SizesTo[n \in Nat] == IF n < 2 THEN 0 ELSE SizesTo[n - 1] + lcPages[n][2]

\* every readpage call of the assembly loop returned as many bytes as asked
FullReturns == Len(data) = SizesTo[Stored]

\* min(64, L+4 - 64k), L+4 being jsonlen (at least 2^16 when jsonlen[1] > 0)
ExpectedSize(k) ==
    IF jsonlen[1] = 0 THEN Min(64, jsonlen[2] - 64 * k) ELSE 64

C19_OneRequest ==
    /\ pc = "rp_send" => nsent = 0 /\ nextra = 0 /\ r = <<>> /\ ~discarded
    /\ pc \in {"rp_read", "rp_test", "rp_topup", "rp_ret"} => nsent = 1
    /\ pc \in {"rp_read", "rp_test", "rp_topup"} => nextra = 0
    /\ pc = "rp_topup" => Len(r) < ReportLen /\ ~Mismatch(r, addr)
    /\ pc = "rp_ret" =>
          /\ nextra <= 1
          /\ nextra = 0 => Len(r) = ReportLen
          /\ Len(r) <= ReportLen

\* C19 witness: a call that discarded a report, accepted a short one and
\* completed it to 68 bytes with its one further read, the request sent once.
C19_Witness ==
    /\ pc = "rp_ret"
    /\ discarded
    /\ nsent = 1
    /\ nextra = 1
    /\ Len(r) = ReportLen

====
